---------------------------- MODULE Spec2Model ----------------------------
(***************************************************************************)
(* Model of compare_models.py: the runner, extract_statistics, the console *)
(* and visual reporters, analyze_results and main().                       *)
(*                                                                         *)
(* Text is modelled at token granularity.  A Python str is a sequence of   *)
(* tokens; the one-character tokens ":", " ", "%", "_", "*" stand for      *)
(* themselves and every other token is a word or a numeral that contains   *)
(* none of those characters.  A captured output is the sequence of its     *)
(* lines, i.e. the value of output_text.split('\n'), which always has at   *)
(* least one element; the empty text is the one-element sequence holding   *)
(* the empty line.  Percentages are integers counted in tenths of a        *)
(* percent.                                                                *)
(***************************************************************************)
EXTENDS Integers, Sequences, FiniteSets, TLC

-----------------------------------------------------------------------------
(* Python values held in a stats mapping *)

PyInt(n) == [t |-> "int", n |-> n, s |-> <<>>]
PyFloat(n) == [t |-> "float", n |-> n, s |-> <<>>]
PyNaN == [t |-> "nan", n |-> 0, s |-> <<>>]
PyStr(s) == [t |-> "str", n |-> 0, s |-> s]

IsNumber(v) == v.t \in {"int", "float"}

\* a dict is a function from keys (token sequences) to Python values
EmptyDict == [k \in {} |-> PyInt(0)]
DictSet(d, key, val) ==
    [k \in (DOMAIN d) \cup {key} |-> IF k = key THEN val ELSE d[k]]
DictGet(d, key, default) == IF key \in DOMAIN d THEN d[key] ELSE default

\* the value of a results-collection entry: None or a stats dict
None == [isNone |-> TRUE, d |-> EmptyDict]
Stats(d) == [isNone |-> FALSE, d |-> d]
\* Python truthiness of such a value: None and {} are falsy
Truthy(r) == ~r.isNone /\ DOMAIN r.d # {}

-----------------------------------------------------------------------------
(* str operations used by extract_statistics *)

\* phrase in line
Contains(line, phrase) ==
    \E i \in 0..(Len(line) - Len(phrase)) :
        \A j \in 1..Len(phrase) : line[i + j] = phrase[j]

\* ch in line, for a one-character token
HasChar(line, ch) == \E i \in 1..Len(line) : line[i] = ch

\* line.split(":")
ColonPositions(line) == {i \in 1..Len(line) : line[i] = ":"}
RECURSIVE SplitColon(_)
SplitColon(line) ==
    IF ColonPositions(line) = {} THEN <<line>>
    ELSE LET p == CHOOSE i \in ColonPositions(line) :
                      \A j \in ColonPositions(line) : i <= j
         IN <<SubSeq(line, 1, p - 1)>> \o SplitColon(SubSeq(line, p + 1, Len(line)))

\* s.strip()
RECURSIVE LStrip(_)
LStrip(s) == IF s # <<>> /\ Head(s) = " " THEN LStrip(Tail(s)) ELSE s
RECURSIVE RStrip(_)
RStrip(s) ==
    IF s # <<>> /\ s[Len(s)] = " " THEN RStrip(SubSeq(s, 1, Len(s) - 1)) ELSE s
Strip(s) == RStrip(LStrip(s))

\* s.replace("%", "")
RemovePercent(s) == SelectSeq(s, LAMBDA tok : tok # "%")

\* s.replace(" ", "_").lower()
LowerTok(tok) ==
    CASE tok = "N" -> "n"
      [] tok = "Images" -> "images"
      [] tok = "Dog" -> "dog"
      [] tok = "Correct" -> "correct"
      [] tok = "Dogs" -> "dogs"
      [] tok = "Breed" -> "breed"
      [] tok = "Notdogs" -> "notdogs"
      [] tok = "Match" -> "match"
      [] tok = "Total" -> "total"
      [] tok = "Elapsed" -> "elapsed"
      [] tok = "Runtime" -> "runtime"
      [] OTHER -> tok
NormalizeKey(s) ==
    [i \in 1..Len(s) |-> IF s[i] = " " THEN "_" ELSE LowerTok(s[i])]

\* the numerals int() accepts, with their values
IntLit ==
    ("40" :> 40) @@ ("30" :> 30) @@ ("10" :> 10) @@ ("0" :> 0) @@ ("3" :> 3)
    @@ ("15" :> 15) @@ ("50" :> 50)
\* the numerals float() accepts beyond those, in tenths; "nan" is accepted too
FloatLit ==
    ("100.0" :> 1000) @@ ("93.3" :> 933) @@ ("90.0" :> 900) @@ ("80.0" :> 800)
    @@ ("0.0" :> 0) @@ ("-5.0" :> -50)

\* int(s): [ok, v]; int() ignores surrounding whitespace
ParseInt(s) ==
    LET w == Strip(s)
    IN IF Len(w) = 1 /\ w[1] \in DOMAIN IntLit
       THEN [ok |-> TRUE, v |-> PyInt(IntLit[w[1]])]
       ELSE [ok |-> FALSE, v |-> PyStr(s)]

\* float(s): [ok, v]
ParseFloat(s) ==
    LET w == Strip(s)
    IN IF Len(w) = 1 /\ w[1] \in DOMAIN FloatLit
         THEN [ok |-> TRUE, v |-> PyFloat(FloatLit[w[1]])]
       ELSE IF Len(w) = 1 /\ w[1] \in DOMAIN IntLit
         THEN [ok |-> TRUE, v |-> PyFloat(10 * IntLit[w[1]])]
       ELSE IF Len(w) = 1 /\ w[1] = "nan"
         THEN [ok |-> TRUE, v |-> PyNaN]
       ELSE [ok |-> FALSE, v |-> PyStr(s)]

\* line.rfind(': '), as a 0-based position, -1 when there is none
RFindColonSpace(line) ==
    LET hits == {i \in 1..(Len(line) - 1) : line[i] = ":" /\ line[i + 1] = " "}
    IN IF hits = {} THEN -1
       ELSE (CHOOSE i \in hits : \A j \in hits : j <= i) - 1

-----------------------------------------------------------------------------
(* extract_statistics *)

HeaderPhrase ==
    <<"Results", " ", "Summary", " ", "for", " ", "CNN", " ", "Model", " ",
      "Architecture">>
NImagesPhrase == <<"N", " ", "Images">>
NDogImagesPhrase == <<"N", " ", "Dog", " ", "Images">>
NNotDogImagesPhrase == <<"N", " ", "Not-Dog", " ", "Images">>
RuntimePhrase == <<"Total", " ", "Elapsed", " ", "Runtime">>

K_n_images == <<"n", "_", "images">>
K_n_dogs == <<"n", "_", "dogs">>
K_n_notdogs == <<"n", "_", "notdogs">>
K_runtime == <<"runtime">>
K_pct_correct_dogs == <<"pct", "_", "correct", "_", "dogs">>
K_pct_correct_breed == <<"pct", "_", "correct", "_", "breed">>
K_pct_correct_notdogs == <<"pct", "_", "correct", "_", "notdogs">>
K_pct_match == <<"pct", "_", "match">>

\* in_results_section before the first line
InitInResultsSectionOpen == TRUE
InitInResultsSection == FALSE

\* which arm of the if/elif chain takes the line
Branch(line, in_results_section) ==
    IF Contains(line, HeaderPhrase) THEN "header"
    ELSE IF in_results_section /\ Contains(line, NImagesPhrase) /\ HasChar(line, ":")
      THEN "n_images"
    ELSE IF in_results_section /\ Contains(line, NDogImagesPhrase) /\ HasChar(line, ":")
      THEN "n_dogs"
    ELSE IF in_results_section /\ Contains(line, NNotDogImagesPhrase) /\ HasChar(line, ":")
      THEN "n_notdogs"
    ELSE IF in_results_section /\ HasChar(line, ":") /\ HasChar(line, "%")
      THEN "pct"
    ELSE IF Contains(line, RuntimePhrase) THEN "runtime"
    ELSE "none"

\* the arm of a count field: stats[key] = int(parts[1].strip()), failures ignored
CountArm(stats, key, line) ==
    LET parts == SplitColon(line)
    IN IF Len(parts) = 2 /\ ParseInt(Strip(parts[2])).ok
       THEN DictSet(stats, key, ParseInt(Strip(parts[2])).v)
       ELSE stats

\* the generic percentage arm
PctArm(stats, line) ==
    LET parts == SplitColon(line)
    IN IF Len(parts) = 2
       THEN LET key == NormalizeKey(Strip(parts[1]))
                value == RemovePercent(Strip(parts[2]))
            IN DictSet(stats, key, ParseFloat(value).v)
       ELSE stats

\* the runtime arm, up to its break
RuntimeArm(stats, line) ==
    LET runtime_start == RFindColonSpace(line) + 2
    IN IF runtime_start > 1
       THEN DictSet(stats, K_runtime,
                    PyStr(Strip(SubSeq(line, runtime_start + 1, Len(line)))))
       ELSE stats

\* whether the loop is left after the arm ran
BreaksNever(branch) == FALSE
Breaks(branch) == branch = "runtime"

\* the loop over lines[i..], from the state (stats, in_results_section)
RECURSIVE ScanFrom(_, _, _, _)
ScanFrom(lines, i, stats, in_results_section) ==
    IF i > Len(lines) THEN stats
    ELSE LET line == lines[i]
             b == Branch(line, in_results_section)
             stats2 ==
                 CASE b = "n_images" -> CountArm(stats, K_n_images, line)
                   [] b = "n_dogs" -> CountArm(stats, K_n_dogs, line)
                   [] b = "n_notdogs" -> CountArm(stats, K_n_notdogs, line)
                   [] b = "pct" -> PctArm(stats, line)
                   [] b = "runtime" -> RuntimeArm(stats, line)
                   [] OTHER -> stats
         IN IF Breaks(b) THEN stats2
            ELSE ScanFrom(lines, i + 1, stats2, in_results_section \/ b = "header")

extract_statistics(lines) == ScanFrom(lines, 1, EmptyDict, InitInResultsSection)

-----------------------------------------------------------------------------
(* shared formatting *)

\* model.upper() for the model identifiers
Upper(model) ==
    CASE model = "vgg" -> "VGG"
      [] model = "alexnet" -> "ALEXNET"
      [] model = "resnet" -> "RESNET"
      [] OTHER -> model
\* model.lower() for the display names of the visual table
Lower(name) ==
    CASE name = "ResNet" -> "resnet"
      [] name = "AlexNet" -> "alexnet"
      [] name = "VGG" -> "vgg"
      [] OTHER -> name

Digits(n) == IF n < 0 THEN <<"-", ToString(0 - n)>> ELSE <<ToString(n)>>
\* f"{v:.1f}": [ok, s]; a str raises ValueError
Fmt1f(v) ==
    CASE v.t = "int" -> [ok |-> TRUE, s |-> Digits(v.n) \o <<".", "0">>]
      [] v.t = "float" ->
           LET a == IF v.n < 0 THEN 0 - v.n ELSE v.n
           IN [ok |-> TRUE,
               s |-> (IF v.n < 0 THEN <<"-">> ELSE <<>>)
                     \o <<ToString(a \div 10), ".", ToString(a % 10)>>]
      [] v.t = "nan" -> [ok |-> TRUE, s |-> <<"nan">>]
      [] OTHER -> [ok |-> FALSE, s |-> <<>>]
\* str(v)
PyToStr(v) ==
    CASE v.t = "str" -> v.s
      [] v.t = "int" -> Digits(v.n)
      [] OTHER -> Fmt1f(v).s

\* the results collection is an insertion-ordered dict: a sequence of entries
Entry(model, r) == [model |-> model, r |-> r]
HasKey(all_results, model) ==
    \E i \in 1..Len(all_results) : all_results[i].model = model
Lookup(all_results, model) ==
    all_results[CHOOSE i \in 1..Len(all_results) : all_results[i].model = model].r
\* all_results[model] = r
Assign(all_results, model, r) ==
    IF HasKey(all_results, model)
    THEN [i \in 1..Len(all_results) |->
             IF all_results[i].model = model THEN Entry(model, r) ELSE all_results[i]]
    ELSE Append(all_results, Entry(model, r))

-----------------------------------------------------------------------------
(* create_console_results_table *)

NA == PyStr(<<"N/A">>)
\* f"{x:.1f}%" if isinstance(x, float) else str(x)
ConsoleCell(x) ==
    IF x.t \in {"float", "nan"} THEN Fmt1f(x).s \o <<"%">> ELSE PyToStr(x)

ConsoleErrorRowNA(model) == <<<<Upper(model)>>, <<"N/A">>, <<"N/A">>, <<"N/A">>, <<"N/A">>>>
ConsoleErrorRow(model) ==
    <<<<Upper(model)>>, <<"ERROR">>, <<"ERROR">>, <<"ERROR">>, <<"ERROR">>>>

ConsoleRow(model, stats) ==
    IF Truthy(stats)
    THEN <<<<Upper(model)>>,
           ConsoleCell(DictGet(stats.d, K_pct_correct_dogs, NA)),
           ConsoleCell(DictGet(stats.d, K_pct_correct_breed, NA)),
           ConsoleCell(DictGet(stats.d, K_pct_correct_notdogs, NA)),
           ConsoleCell(DictGet(stats.d, K_pct_match, NA))>>
    ELSE ConsoleErrorRow(model)

\* the rows printed, in the order of all_results.items()
create_console_results_table(all_results) ==
    [i \in 1..Len(all_results) |->
        ConsoleRow(all_results[i].model, all_results[i].r)]

-----------------------------------------------------------------------------
(* analyze_results *)

safe_get(stats, key) == IF Truthy(stats) THEN DictGet(stats.d, key, PyInt(0)) ELSE PyInt(0)

\* the value of a number in tenths
Tenths(v) == IF v.t = "int" THEN 10 * v.n ELSE v.n
\* a > b between numbers; every comparison with nan is False
PyGt(a, b) == a.t # "nan" /\ b.t # "nan" /\ Tenths(a) > Tenths(b)

\* max(): whether a later item replaces the best one so far
ReplacesOnTie(k, best) == k.t # "nan" /\ best.t # "nan" /\ Tenths(k) >= Tenths(best)
Replaces(k, best) == PyGt(k, best)

\* max(all_results.items(), key=...) over items i.., the best so far being item b
RECURSIVE MaxFrom(_, _, _, _)
MaxFrom(all_results, key, i, b) ==
    IF i > Len(all_results) THEN b
    ELSE IF Replaces(safe_get(all_results[i].r, key), safe_get(all_results[b].r, key))
         THEN MaxFrom(all_results, key, i + 1, i)
         ELSE MaxFrom(all_results, key, i + 1, b)

MetricValues(all_results, key) ==
    {safe_get(all_results[i].r, key) : i \in 1..Len(all_results)}
\* max() compares a str with a number: TypeError
MixedTypes(all_results, key) ==
    /\ \E v \in MetricValues(all_results, key) : v.t = "str"
    /\ \E v \in MetricValues(all_results, key) : v.t # "str"
\* every key is a str: max() returns one of them and its :.1f raises ValueError
AllStr(all_results, key) ==
    \A v \in MetricValues(all_results, key) : v.t = "str"

Metrics == <<K_pct_correct_dogs, K_pct_correct_breed, K_pct_correct_notdogs, K_pct_match>>

\* one category: [model, value] of the winner
Best(all_results, key) ==
    LET b == MaxFrom(all_results, key, 2, 1)
    IN [model |-> all_results[b].model, value |-> safe_get(all_results[b].r, key)]

NoAnalysis ==
    [raised |-> "", best |-> <<>>, recommended |-> ""]
\* what analyze_results prints, or the exception it raises
analyze_results(all_results) ==
    IF \E m \in 1..Len(Metrics) : MixedTypes(all_results, Metrics[m])
      THEN [NoAnalysis EXCEPT !.raised = "TypeError"]
    ELSE IF \E m \in 1..Len(Metrics) : AllStr(all_results, Metrics[m])
      THEN [NoAnalysis EXCEPT !.raised = "ValueError"]
    ELSE [raised |-> "",
          best |-> [m \in 1..Len(Metrics) |-> Best(all_results, Metrics[m])],
          recommended |-> Upper(Best(all_results, K_pct_match).model)]

-----------------------------------------------------------------------------
(* create_visual_results_table *)

DisplayModels == <<"ResNet", "AlexNet", "VGG">>

VisualErrorRow(model) ==
    <<<<model>>, <<"ERROR">>, <<"ERROR">>, <<"ERROR">>, <<"ERROR">>, <<"ERROR">>>>

\* whether the row of a display model is rendered from its stats
HasStats(all_results, model_key) ==
    HasKey(all_results, model_key) /\ Truthy(Lookup(all_results, model_key))

VisualPctKeys == <<K_pct_correct_notdogs, K_pct_correct_dogs, K_pct_correct_breed, K_pct_match>>

VisualRow(all_results, model) ==
    IF HasStats(all_results, Lower(model))
    THEN LET stats == Lookup(all_results, Lower(model)).d
         IN <<<<model>>>>
            \o [j \in 1..Len(VisualPctKeys) |->
                   Fmt1f(DictGet(stats, VisualPctKeys[j], PyInt(0))).s \o <<"%">>]
            \o <<PyToStr(DictGet(stats, K_runtime, PyStr(<<"0", ":", "0", ":", "0">>)))>>
    ELSE VisualErrorRow(model)

\* a :.1f of the row raises ValueError
VisualRowRaises(all_results, model) ==
    /\ HasStats(all_results, Lower(model))
    /\ \E j \in 1..Len(VisualPctKeys) :
          ~Fmt1f(DictGet(Lookup(all_results, Lower(model)).d, VisualPctKeys[j], PyInt(0))).ok

NoVisual == [status |-> "", summary |-> <<>>, table |-> <<>>]
\* the outcome: skipped (no matplotlib), no_valid_results, saved, or ValueError
create_visual_results_table(all_results, matplotlib) ==
    IF ~matplotlib THEN [NoVisual EXCEPT !.status = "skipped"]
    ELSE LET sample_stats == all_results[1].r
         IN IF ~Truthy(sample_stats)
              THEN [NoVisual EXCEPT !.status = "no_valid_results"]
            ELSE IF \E m \in 1..Len(DisplayModels) :
                        VisualRowRaises(all_results, DisplayModels[m])
              THEN [NoVisual EXCEPT !.status = "ValueError"]
            ELSE [status |-> "saved",
                  summary |-> <<PyToStr(DictGet(sample_stats.d, K_n_images, PyInt(0))),
                                PyToStr(DictGet(sample_stats.d, K_n_dogs, PyInt(0))),
                                PyToStr(DictGet(sample_stats.d, K_n_notdogs, PyInt(0)))>>,
                  table |-> [m \in 1..Len(DisplayModels) |->
                                VisualRow(all_results, DisplayModels[m])]]

-----------------------------------------------------------------------------
(* run_model_and_capture_results *)

\* what subprocess.run does: exit status zero, non-zero, TimeoutExpired, another exception
RunKinds == {"exit0", "nonzero", "timeout", "error"}

NoOutput == [isNone |-> TRUE, text |-> <<<<>>>>]
\* the value returned for a run of the given kind whose stdout is the given text
run_model_and_capture_results(kind, stdout) ==
    IF kind = "exit0" THEN [isNone |-> FALSE, text |-> stdout] ELSE NoOutput

-----------------------------------------------------------------------------
(* inputs: lines and captured texts *)

L_Header == <<"*", " ">> \o HeaderPhrase \o <<" ", "VGG", " ", "*">>
L_NImages == NImagesPhrase \o <<":", " ", "40">>
L_NImagesBad == NImagesPhrase \o <<":", " ", "many">>
L_NDogImages == NDogImagesPhrase \o <<":", " ", "30">>
L_NNotDogImages == NNotDogImagesPhrase \o <<":", " ", "10">>
L_Runtime == <<"*", "*", " ">> \o RuntimePhrase \o <<":", " ", "0", ":", "3", ":", "15">>
L_RuntimePct == RuntimePhrase \o <<":", " ", "50", "%">>
L_RuntimeNoColon == RuntimePhrase
L_RuntimeNImages == NImagesPhrase \o <<" ">> \o RuntimePhrase \o <<":", " ", "3">>
L_HeaderRuntime == HeaderPhrase \o <<" ">> \o RuntimePhrase \o <<":", " ", "3">>
L_Blank == <<>>

DogsLabel == <<"pct", " ", "Correct", " ", "Dogs">>
BreedLabel == <<"pct", " ", "Correct", " ", "Breed">>
NotdogsLabel == <<"pct", " ", "Correct", " ", "Notdogs">>
MatchLabel == <<"pct", " ", "Match">>
PctLine(label, numeral) == label \o <<":", " ", numeral, "%">>

\* the lines the texts of the extractor's specification are made of
Lines ==
    {L_Header, L_NImages, L_NImagesBad, L_NDogImages, L_NNotDogImages,
     L_Runtime, L_RuntimePct, L_RuntimeNoColon, L_RuntimeNImages, L_HeaderRuntime,
     L_Blank, PctLine(DogsLabel, "93.3"), PctLine(MatchLabel, "n/a")}

MaxLines == 3
RECURSIVE TextsOfLen(_)
TextsOfLen(n) ==
    IF n = 0 THEN {<<>>}
    ELSE {Append(t, l) : t \in TextsOfLen(n - 1), l \in Lines}
Texts == UNION {TextsOfLen(n) : n \in 1..MaxLines}

\* a full report of check_images.py
Report(dogs, breed, notdogs, match) ==
    <<L_Header, L_NImages, L_NDogImages, L_NNotDogImages,
      PctLine(DogsLabel, dogs), PctLine(BreedLabel, breed),
      PctLine(NotdogsLabel, notdogs), PctLine(MatchLabel, match), L_Runtime>>

EmptyText == <<L_Blank>>
\* the captured texts main() is run on
Outputs ==
    {EmptyText,
     <<<<"Traceback">>>>,
     <<PctLine(MatchLabel, "93.3"), L_Runtime>>,
     Report("100.0", "80.0", "100.0", "80.0"),
     Report("100.0", "90.0", "100.0", "90.0"),
     Report("100.0", "93.3", "100.0", "93.3"),
     Report("0.0", "0.0", "0.0", "0.0"),
     <<L_Header, PctLine(MatchLabel, "93.3")>>,
     <<L_Header, PctLine(MatchLabel, "0.0")>>,
     <<L_Header, PctLine(MatchLabel, "-5.0")>>,
     <<L_Header, PctLine(MatchLabel, "nan")>>,
     <<L_Header, PctLine(MatchLabel, "n/a")>>,
     <<L_Header, PctLine(DogsLabel, "n/a"), PctLine(MatchLabel, "90.0")>>}

\* what one external run can do: its kind and what it wrote to stdout
RunOutcomes ==
    {[kind |-> "exit0", stdout |-> t] : t \in Outputs}
    \cup {[kind |-> "nonzero", stdout |-> t] :
             t \in {EmptyText, Report("100.0", "80.0", "100.0", "80.0")}}
    \cup {[kind |-> k, stdout |-> EmptyText] : k \in {"timeout", "error"}}

-----------------------------------------------------------------------------
(* main *)

VARIABLES
    pc,           \* where main() is
    exists,       \* os.path.exists of check_images.py, args.dir, args.dogfile
    matplotlib,   \* whether matplotlib can be imported
    runs,         \* the external runs made so far: [model, kind, stdout]
    all_results,  \* the results collection
    printed,      \* the status lines main() printed
    console,      \* the rows of the console table
    analysis,     \* what analyze_results printed or raised
    visual,       \* what create_visual_results_table did
    text,         \* the argument of a direct call of extract_statistics
    stats,        \* its return value
    extracted     \* whether that call returned

vars ==
    <<pc, exists, matplotlib, runs, all_results, printed, console, analysis, visual,
      text, stats, extracted>>

mainVars == <<pc, exists, matplotlib, runs, all_results, printed, console, analysis, visual>>
extractVars == <<text, stats, extracted>>

modelsReversed == <<"resnet", "alexnet", "vgg">>
models == <<"vgg", "alexnet", "resnet">>

\* the three precondition checks all pass
PathsExistButDogfile(e) == e.script /\ e.dir
PathsExist(e) == e.script /\ e.dir /\ e.dogfile

\* the error printed by the first failing check
PathError(e) ==
    IF ~e.script THEN "ERROR: check_images.py not found in current directory"
    ELSE IF ~e.dir THEN "ERROR: Image directory not found"
    ELSE "ERROR: Dog names file not found"

\* if output:
OutputTruthy(output) == ~output.isNone /\ output.text # EmptyText

Init ==
    /\ pc = "validate"
    /\ exists \in [script : BOOLEAN, dir : BOOLEAN, dogfile : BOOLEAN]
    /\ matplotlib \in BOOLEAN
    /\ runs = <<>>
    /\ all_results = <<>>
    /\ printed = <<>>
    /\ console = <<>>
    /\ analysis = NoAnalysis
    /\ visual = NoVisual
    /\ text = EmptyText
    /\ stats = EmptyDict
    /\ extracted = FALSE

\* the precondition checks
Validate ==
    /\ pc = "validate"
    /\ IF PathsExist(exists)
       THEN /\ pc' = "loop"
            /\ printed' = Append(printed, "Uploaded Image Classification - Model Comparison")
       ELSE /\ pc' = "aborted"
            /\ printed' = Append(printed, PathError(exists))
    /\ UNCHANGED <<exists, matplotlib, runs, all_results, console, analysis, visual>>
    /\ UNCHANGED extractVars

\* one iteration of the loop over models
RunModel ==
    /\ pc = "loop"
    /\ \E o \in RunOutcomes :
          LET model == models[Len(runs) + 1]
              output == run_model_and_capture_results(o.kind, o.stdout)
          IN /\ runs' = Append(runs, [model |-> model, kind |-> o.kind, stdout |-> o.stdout])
             /\ IF OutputTruthy(output)
                THEN /\ all_results' =
                            Assign(all_results, model, Stats(extract_statistics(output.text)))
                     /\ printed' = Append(printed, "completed")
                ELSE /\ all_results' = Assign(all_results, model, None)
                     /\ printed' = Append(printed, "failed")
    /\ pc' = IF Len(runs') = Len(models) THEN "console" ELSE "loop"
    /\ UNCHANGED <<exists, matplotlib, console, analysis, visual>>
    /\ UNCHANGED extractVars

Console ==
    /\ pc = "console"
    /\ console' = create_console_results_table(all_results)
    /\ pc' = "analyze"
    /\ UNCHANGED <<exists, matplotlib, runs, all_results, printed, analysis, visual>>
    /\ UNCHANGED extractVars

Analyze ==
    /\ pc = "analyze"
    /\ analysis' = analyze_results(all_results)
    /\ pc' = IF analysis'.raised # "" THEN "raised" ELSE "visual"
    /\ UNCHANGED <<exists, matplotlib, runs, all_results, printed, console, visual>>
    /\ UNCHANGED extractVars

Visual ==
    /\ pc = "visual"
    /\ visual' = create_visual_results_table(all_results, matplotlib)
    /\ IF visual'.status = "ValueError"
       THEN pc' = "raised" /\ printed' = printed
       ELSE pc' = "done" /\ printed' = Append(printed, "Comparison complete!")
    /\ UNCHANGED <<exists, matplotlib, runs, all_results, console, analysis>>
    /\ UNCHANGED extractVars

Next == Validate \/ RunModel \/ Console \/ Analyze \/ Visual

Spec == Init /\ [][Next]_vars

-----------------------------------------------------------------------------
(* extract_statistics called on its own, on every text of Texts *)

InitExtract ==
    /\ pc = "validate"
    /\ exists = [script |-> TRUE, dir |-> TRUE, dogfile |-> TRUE]
    /\ matplotlib = TRUE
    /\ runs = <<>>
    /\ all_results = <<>>
    /\ printed = <<>>
    /\ console = <<>>
    /\ analysis = NoAnalysis
    /\ visual = NoVisual
    /\ text \in Texts
    /\ stats = EmptyDict
    /\ extracted = FALSE

ExtractStatistics ==
    /\ ~extracted
    /\ stats' = extract_statistics(text)
    /\ extracted' = TRUE
    /\ UNCHANGED text
    /\ UNCHANGED mainVars

NextExtract == ExtractStatistics

SpecExtract == InitExtract /\ [][NextExtract]_vars

-----------------------------------------------------------------------------
(* Properties of main(), checked under Spec *)

ExpectedOrder == <<"vgg", "alexnet", "resnet">>
ExpectedUpper == <<"VGG", "ALEXNET", "RESNET">>
AnalysisPrinted == pc \in {"visual", "done"}

\* every absent entry comes from a run that failed, timed out or could not start
AbsentOnlyByFailure ==
    \A i \in 1..Len(all_results) : all_results[i].r.isNone <=> runs[i].kind # "exit0"

\* C1: once the precondition checks pass, main() never ends in an uncaught
\* exception, whatever the runs do and whatever text they print, texts whose
\* percentage values are not numbers included.  (Stated for the collections in
\* which the absent results are those of the failed runs.)
C1_NoUncaughtException == AbsentOnlyByFailure => pc # "raised"

\* the metric value the claims speak of: an absent result or a missing key counts as 0
MetricTenths(i, key) ==
    IF all_results[i].r.isNone \/ key \notin DOMAIN all_results[i].r.d
    THEN 0
    ELSE Tenths(all_results[i].r.d[key])

\* every value of the four metrics is a percentage between 0.0 and 100.0
PercentagesInRange ==
    \A m \in 1..4 : \A i \in 1..Len(all_results) :
        (~all_results[i].r.isNone /\ Metrics[m] \in DOMAIN all_results[i].r.d)
            => /\ IsNumber(all_results[i].r.d[Metrics[m]])
               /\ MetricTenths(i, Metrics[m]) \in 0..1000

\* C2: a model whose run result is absent is never selected as a category winner
\* unless all three results are absent, in which case vgg wins.  (Stated for the
\* collections in which the absent results are those of the failed runs and the
\* percentages lie between 0.0 and 100.0.)
C2_AbsentNeverWins ==
    (AnalysisPrinted /\ AbsentOnlyByFailure /\ PercentagesInRange) =>
        \A m \in 1..4 : \A i \in 1..3 :
            (analysis.best[m].model = all_results[i].model /\ all_results[i].r.isNone)
                => (i = 1 /\ \A j \in 1..3 : all_results[j].r.isNone)

\* the row of the detailed table a model with a result is due: its own values
OwnRow(name, d) ==
    <<<<name>>,
      Fmt1f(DictGet(d, K_pct_correct_notdogs, PyInt(0))).s \o <<"%">>,
      Fmt1f(DictGet(d, K_pct_correct_dogs, PyInt(0))).s \o <<"%">>,
      Fmt1f(DictGet(d, K_pct_correct_breed, PyInt(0))).s \o <<"%">>,
      Fmt1f(DictGet(d, K_pct_match, PyInt(0))).s \o <<"%">>,
      PyToStr(DictGet(d, K_runtime, PyStr(<<"0", ":", "0", ":", "0">>)))>>
AllErrorRow(name) ==
    <<<<name>>, <<"ERROR">>, <<"ERROR">>, <<"ERROR">>, <<"ERROR">>, <<"ERROR">>>>
\* all_results[4 - m] is the entry of the m-th display model
DueRow(m) ==
    LET name == <<"ResNet", "AlexNet", "VGG">>[m]
        r == all_results[4 - m].r
    IN IF r.isNone THEN AllErrorRow(name) ELSE OwnRow(name, r.d)

\* C3: with matplotlib present, the visual step produces the detailed table with
\* exactly the rows ResNet, AlexNet, VGG, an all-"ERROR" row for each absent model
\* and its own values for each other one, whichever models are absent.  (Stated
\* for the collections in which the absent results are those of the failed runs,
\* some run succeeded and every successful run yielded a non-empty mapping.)
C3_VisualTable ==
    (/\ pc = "done" /\ matplotlib /\ AbsentOnlyByFailure
     /\ \E i \in 1..3 : ~all_results[i].r.isNone
     /\ \A i \in 1..3 : ~all_results[i].r.isNone => DOMAIN all_results[i].r.d # {}) =>
        /\ visual.status = "saved"
        /\ Len(visual.table) = 3
        /\ \A m \in 1..3 : visual.table[m] = DueRow(m)

\* C5: an entry of the results collection is None iff its run failed, and every run
\* that exited with status zero is recorded as extract_statistics of its stdout.
C5_NoneIffFailed ==
    \A i \in 1..Len(runs) :
        /\ i <= Len(all_results)
        /\ all_results[i].r.isNone <=> runs[i].kind # "exit0"
        /\ runs[i].kind = "exit0"
              => all_results[i].r = Stats(extract_statistics(runs[i].stdout))

\* C6: the runner is invoked once per model in the order vgg, alexnet, resnet, with
\* no retry; each entry is written once, before the next run, and never changed;
\* the reporters run only on the collection holding exactly the three keys in order.
C6_RunsAndEntries ==
    /\ Len(runs) <= 3
    /\ Len(all_results) = Len(runs)
    /\ \A i \in 1..Len(runs) :
          runs[i].model = ExpectedOrder[i] /\ all_results[i].model = ExpectedOrder[i]
    /\ (pc \in {"console", "analyze", "visual", "done", "raised"}
          \/ console # <<>> \/ analysis # NoAnalysis \/ visual # NoVisual)
          => Len(all_results) = 3
C6_NeverRevised ==
    /\ Len(all_results') >= Len(all_results)
    /\ Len(runs') \in {Len(runs), Len(runs) + 1}
    /\ \A i \in 1..Len(all_results) : all_results'[i] = all_results[i]
    /\ \A i \in 1..Len(runs) : runs'[i] = runs[i]
C6_OncePerModelInOrder == []C6_RunsAndEntries /\ [][C6_NeverRevised]_vars
C6_Witness ==
    /\ pc = "done"
    /\ runs[1].kind = "timeout" /\ runs[2].kind = "nonzero" /\ runs[3].kind = "exit0"
    /\ all_results[1].r.isNone /\ ~all_results[3].r.isNone

\* C7: if one of the three required paths does not exist, main() prints an error and
\* stops: no run is made, no result is recorded and no reporter or analyzer runs.
C7_MissingPathAborts ==
    ~(exists.script /\ exists.dir /\ exists.dogfile) =>
        /\ pc \in {"validate", "aborted"}
        /\ runs = <<>> /\ all_results = <<>>
        /\ console = <<>> /\ analysis = NoAnalysis /\ visual = NoVisual
        /\ pc = "aborted" => (Len(printed) = 1 /\ printed[1] = PathError(exists))
C7_Witness ==
    pc = "aborted" /\ exists.script /\ exists.dir /\ ~exists.dogfile

\* the metric's values are all numbers (no str, no nan)
NumericMetric(key) ==
    \A i \in 1..3 :
        (~all_results[i].r.isNone /\ key \in DOMAIN all_results[i].r.d)
            => IsNumber(all_results[i].r.d[key])
\* i is the first model attaining the maximum of the metric
FirstMax(i, key) ==
    /\ \A j \in 1..3 : MetricTenths(j, key) <= MetricTenths(i, key)
    /\ \A j \in 1..(i - 1) : MetricTenths(j, key) < MetricTenths(i, key)

\* C8: when the metric values are numeric, each category winner is the first model in
\* the order vgg, alexnet, resnet that attains the maximum, an absent result or a
\* missing key counting as 0, and the recommended model is the pct_match winner.
C8_FirstMaximumWins ==
    AnalysisPrinted =>
        /\ \A m \in 1..4 :
              NumericMetric(Metrics[m]) =>
                  \E i \in 1..3 :
                      /\ FirstMax(i, Metrics[m])
                      /\ analysis.best[m].model = ExpectedOrder[i]
                      /\ Tenths(analysis.best[m].value) = MetricTenths(i, Metrics[m])
        /\ \E i \in 1..3 :
              /\ analysis.best[4].model = ExpectedOrder[i]
              /\ analysis.recommended = ExpectedUpper[i]
C8_Witness ==
    /\ pc = "done"
    /\ MetricTenths(1, K_pct_match) = 800
    /\ MetricTenths(2, K_pct_match) = 900
    /\ MetricTenths(3, K_pct_match) = 933
    /\ MetricTenths(1, K_pct_correct_dogs) = 1000
    /\ MetricTenths(2, K_pct_correct_dogs) = 1000
    /\ analysis.recommended = "RESNET"
    /\ analysis.best[1].model = "vgg"

\* C10: the console table has one row per model of the collection, in its order, and
\* the row of a model whose result is absent shows "ERROR" in all four columns.
C10_ConsoleErrorRows ==
    pc \in {"analyze", "visual", "done", "raised"} =>
        /\ Len(console) = 3
        /\ \A i \in 1..3 :
              /\ console[i][1] = <<ExpectedUpper[i]>>
              /\ all_results[i].r.isNone =>
                    \A c \in 2..5 : console[i][c] = <<"ERROR">>
C10_Witness ==
    /\ pc = "done"
    /\ all_results[2].r.isNone
    /\ ~all_results[1].r.isNone /\ console[1][5] = <<"80", ".", "0", "%">>
    /\ console[2] = <<<<"ALEXNET">>, <<"ERROR">>, <<"ERROR">>, <<"ERROR">>, <<"ERROR">>>>

-----------------------------------------------------------------------------
(* Properties of extract_statistics, checked under SpecExtract *)

HasRuntimePhrase(i) == Contains(text[i], RuntimePhrase)
FirstWithRuntimePhrase(i) ==
    HasRuntimePhrase(i) /\ \A j \in 1..(i - 1) : ~HasRuntimePhrase(j)

RuntimeText == PyStr(<<"0", ":", "3", ":", "15">>)

\* C4 as stated: the first line containing "Total Elapsed Runtime" ends the scan,
\* whatever else it contains and whether or not the header was seen: the mapping
\* returned is the one the text cut after that line gives, and the line
\* "** Total Elapsed Runtime: 0:3:15" yields runtime "0:3:15".
C4_FirstRuntimeLineEndsScan ==
    extracted =>
        \A i \in 1..Len(text) :
            FirstWithRuntimePhrase(i) =>
                /\ stats = extract_statistics(SubSeq(text, 1, i))
                /\ text[i] = L_Runtime =>
                      (K_runtime \in DOMAIN stats /\ stats[K_runtime] = RuntimeText)

HeaderSeenBefore(i) == \E j \in 1..(i - 1) : Contains(text[j], HeaderPhrase)
\* a line with the runtime phrase that no earlier arm of the chain takes
RuntimeLine(i) ==
    /\ HasRuntimePhrase(i)
    /\ ~Contains(text[i], HeaderPhrase)
    /\ ~(/\ HeaderSeenBefore(i)
         /\ HasChar(text[i], ":")
         /\ \/ HasChar(text[i], "%")
            \/ Contains(text[i], NImagesPhrase)
            \/ Contains(text[i], NDogImagesPhrase)
            \/ Contains(text[i], NNotDogImagesPhrase))
FirstRuntimeLine(i) == RuntimeLine(i) /\ \A j \in 1..(i - 1) : ~RuntimeLine(j)

\* C4 amended: the scan ends at the first line that contains "Total Elapsed Runtime",
\* does not contain the header phrase and, once the header has been seen, does not
\* contain ":" together with "%" or one of the three count labels.
C4_FirstRuntimeArmLineEndsScan ==
    extracted =>
        \A i \in 1..Len(text) :
            FirstRuntimeLine(i) =>
                /\ stats = extract_statistics(SubSeq(text, 1, i))
                /\ text[i] = L_Runtime =>
                      (K_runtime \in DOMAIN stats /\ stats[K_runtime] = RuntimeText)
C4_Witness ==
    /\ extracted
    /\ text = <<L_Header, L_Runtime, PctLine(DogsLabel, "93.3")>>
    /\ DOMAIN stats = {K_runtime}
    /\ stats[K_runtime] = RuntimeText

\* C9: for a text none of whose lines contains the header phrase, the mapping
\* returned has no key other than possibly runtime.
C9_NoHeaderOnlyRuntime ==
    (extracted /\ \A i \in 1..Len(text) : ~Contains(text[i], HeaderPhrase))
        => DOMAIN stats \subseteq {K_runtime}
C9_Witness ==
    /\ extracted
    /\ text = <<L_NImages, PctLine(DogsLabel, "93.3"), L_Runtime>>
    /\ DOMAIN stats = {K_runtime}

=============================================================================
